---- MODULE Spec2Model ----
(***************************************************************************)
(* missed_bolus.py: a polling loop that fetches recent carb entries from a *)
(* Nightscout instance, looks for an insulin entry close after each one    *)
(* and raises a (deduplicated) alert for the first carb entry that has     *)
(* none.                                                                   *)
(*                                                                         *)
(* Time is in seconds.  A treatment's "timestamp" string is represented by *)
(* the number of seconds it denotes, so two entries are the same entry     *)
(* when their timestamps are; the carb amount and the other fields of a    *)
(* treatment take no part in any decision of the script (the data service  *)
(* applies the IGNORE_CARBS filter of the query).  The clock stands still  *)
(* during a poll cycle and advances by LOOP_TIME at each sleep.            *)
(***************************************************************************)
EXTENDS Integers, Sequences, FiniteSets

\* ---------------------------------------------------------------- constants
IGNORE_AFTER == 1800
BOLUS_BEFORE == 240
LOOP_TIME == 240
\* count arguments of the three fetch_data calls
DEFAULT_COUNT == 3
CARB_COUNT == 5
INSULIN_COUNT == 10

\* ------------------------------------------------------------------- bounds
\* number of sleeps the model follows
MaxCycles == 3
\* largest number of carb / insulin entries the data service holds
MaxCarbs == 2
MaxInsulin == 1
\* largest number of external calls that fail in one run
MaxFailures == 2
\* the same two bounds in the runs with a long outage of the services (SpecOutage)
OutageCycles == 4
OutageFailures == 4

MaxNow == MaxCycles * LOOP_TIME

\* timestamps of the carb and insulin entries the data service may hold
CarbTimes == {-2040, -1800, -480, -360, 240}
InsulinTimes == {-2040, -480, -120}
\* the entries the data service holds in the runs with a long outage
OutageCarbs == {-480, -360}
OutageInsulin == {-120}

VARIABLES
    now,            \* datetime.utcnow()
    carbs,          \* data service: timestamps of the "Carb Correction" entries
    insulin,        \* data service: timestamps of the "Correction Bolus" entries
    notes,          \* data service: timestamps of the entries enteredBy APP_NAME, newest first
    pc,             \* position of main(): "fetch", "check" or "sleep"
    carb_data,      \* main / check_missed_boluses: the fetched carb batch
    carb_ok,        \* this cycle: the carb fetch got a 200 response
    first_seen,     \* [timestamp, at] of the first cycle that fetched each carb entry
    idx,            \* check_missed_boluses: index of the next carb_entry of the for loop
    insulin_data,   \* check_missed_boluses: [none |-> TRUE] or the fetched insulin list
    verdicts,       \* this cycle: what the loop did with carb_data[i]
    ins_fetches,    \* this cycle: number of calls of insulin_func
    sa_calls,       \* this cycle: the carb entries send_alert was called with
    dd_log,         \* every call of already_alerted: [timestamp, at, ok, had, seen, result]
    po_log,         \* every call of send_po_alert: [timestamp, at, ok]
    ns_log,         \* every call of send_ns_alert: [timestamp, at, ok, had]
    failures        \* number of external calls that have failed

vars == <<now, carbs, insulin, notes, pc, carb_data, carb_ok, first_seen, idx,
          insulin_data, verdicts, ins_fetches, sa_calls, dd_log, po_log, ns_log,
          failures>>

\* ------------------------------------------------------------------ helpers
SetMax(S) == CHOOSE x \in S : \A y \in S : y <= x

\* the entries of a store as the treatments query lists them: newest first
RECURSIVE NewestFirst(_)
NewestFirst(S) ==
    IF S = {} THEN <<>>
    ELSE <<SetMax(S)>> \o NewestFirst(S \ {SetMax(S)})

Take(s, n) == SubSeq(s, 1, IF Len(s) < n THEN Len(s) ELSE n)

Range(s) == {s[i] : i \in 1..Len(s)}

\* fetch_data without the status test of line 64
fetch_data_AnyStatus(listing, count, ok) == Take(listing, count)

\* fetch_data: the first `count` entries of the listing, [] on a non-200 response
fetch_data(listing, count, ok) == IF ok THEN Take(listing, count) ELSE <<>>

\* ----------------------------------------------------- check_missed_boluses
\* line 85 with < for <=
TooRecent_Strict(t, carb_time) == t - carb_time < BOLUS_BEFORE

\* line 85 with a grace period one LOOP_TIME longer
TooRecent_LongGrace(t, carb_time) == t - carb_time <= BOLUS_BEFORE + LOOP_TIME

\* line 85
TooRecent(t, carb_time) == t - carb_time <= BOLUS_BEFORE

\* line 90 with >= for >
TooOld_Inclusive(t, carb_time) == t - carb_time >= IGNORE_AFTER

\* line 90
TooOld(t, carb_time) == t - carb_time > IGNORE_AFTER

\* line 103 with < for the second <=
InsulinMatches_StrictUpper(insulin_time, carb_time) ==
    /\ 0 <= insulin_time - carb_time
    /\ insulin_time - carb_time < BOLUS_BEFORE

\* line 103 without the lower bound: insulin before the carbs counts too
InsulinMatches_NoLowerBound(insulin_time, carb_time) ==
    insulin_time - carb_time <= BOLUS_BEFORE

\* line 103
InsulinMatches(insulin_time, carb_time) ==
    /\ 0 <= insulin_time - carb_time
    /\ insulin_time - carb_time <= BOLUS_BEFORE

\* lines 101-106: the scan of the insulin list
Matched(data, carb_time) ==
    \E i \in 1..Len(data) : InsulinMatches(data[i], carb_time)

\* line 95 without the test: a GET for every carb entry that gets there
NeedInsulinFetch_Always(data) == TRUE

\* line 95
NeedInsulinFetch(data) == data.none

NoInsulin == [none |-> TRUE, list |-> <<>>]

\* what the loop body does with an entry
Verdict(t, carb_time, data) ==
    IF TooRecent(t, carb_time) THEN "recent"
    ELSE IF TooOld(t, carb_time) THEN "old"
    ELSE IF Matched(data, carb_time) THEN "matched"
    ELSE "alert"

\* the loop without the break of line 113
LoopGoesOn_AfterAlert(verdict) == verdict \in {"recent", "matched", "alert"}

\* the loop with continue for the break of line 92
LoopGoesOn_AfterOld(verdict) == verdict \in {"recent", "matched", "old"}

\* continue (lines 88, 106 and the end of the body) or break (lines 92, 113)
LoopGoesOn(verdict) == verdict \in {"recent", "matched"}

\* --------------------------------------------------------------- send_alert
\* lines 116-125
already_alerted(fetched, carb_entry) ==
    \E i \in 1..Len(fetched) : fetched[i] = carb_entry

\* lines 132-136 with the result of already_alerted ignored
ShouldSend_Always(repeat, alerted) == TRUE

\* lines 132-136
ShouldSend(repeat, alerted) == repeat \/ ~alerted

\* send_ns_alert against a data service that stores the note whatever it answers
send_ns_alert_Stored(carb_entry, ok) ==
    /\ notes' = <<carb_entry>> \o notes
    /\ ns_log' = Append(ns_log, [timestamp |-> carb_entry, at |-> now, ok |-> ok,
                                 had |-> carb_entry \in Range(notes)])

\* send_ns_alert against a data service that keeps only the newest note
send_ns_alert_Overwrites(carb_entry, ok) ==
    /\ notes' = IF ok THEN <<carb_entry>> ELSE notes
    /\ ns_log' = Append(ns_log, [timestamp |-> carb_entry, at |-> now, ok |-> ok,
                                 had |-> carb_entry \in Range(notes)])

\* lines 141-166: the data service stores the note on a 200 response
send_ns_alert(carb_entry, ok) ==
    /\ notes' = IF ok THEN <<carb_entry>> \o notes ELSE notes
    /\ ns_log' = Append(ns_log, [timestamp |-> carb_entry, at |-> now, ok |-> ok,
                                 had |-> carb_entry \in Range(notes)])

\* lines 169-188
send_po_alert(carb_entry, ok) ==
    po_log' = Append(po_log, [timestamp |-> carb_entry, at |-> now, ok |-> ok])

\* send_alert that writes the note only after a delivered push
send_alert_NoteIfPushed(carb_entry, dd_ok, po_ok, ns_ok) ==
    LET fetched == fetch_data(notes, DEFAULT_COUNT, dd_ok)
        alerted == already_alerted(fetched, carb_entry)
    IN  /\ sa_calls' = Append(sa_calls, carb_entry)
        /\ dd_log' = Append(dd_log, [timestamp |-> carb_entry, at |-> now, ok |-> dd_ok,
                                     had |-> carb_entry \in Range(notes),
                                     seen |-> Range(notes) \subseteq Range(fetched),
                                     result |-> alerted])
        /\ IF ~alerted
           THEN /\ send_po_alert(carb_entry, po_ok)
                /\ IF po_ok
                   THEN send_ns_alert(carb_entry, ns_ok)
                   ELSE ns_ok /\ UNCHANGED <<ns_log, notes>>
           ELSE /\ po_ok /\ ns_ok
                /\ UNCHANGED <<po_log, ns_log, notes>>

\* lines 128-138, called with repeat=False
send_alert(carb_entry, dd_ok, po_ok, ns_ok) ==
    LET fetched == fetch_data(notes, DEFAULT_COUNT, dd_ok)
        alerted == already_alerted(fetched, carb_entry)
    IN  /\ sa_calls' = Append(sa_calls, carb_entry)
        /\ dd_log' = Append(dd_log, [timestamp |-> carb_entry, at |-> now, ok |-> dd_ok,
                                     had |-> carb_entry \in Range(notes),
                                     seen |-> Range(notes) \subseteq Range(fetched),
                                     result |-> alerted])
        /\ IF ShouldSend(FALSE, alerted)
           THEN /\ send_po_alert(carb_entry, po_ok)
                /\ send_ns_alert(carb_entry, ns_ok)
           ELSE /\ po_ok /\ ns_ok
                /\ UNCHANGED <<po_log, ns_log, notes>>

\* ------------------------------------------------------------------ actions
Failed(ok) == IF ok THEN 0 ELSE 1

\* the state of the script before its first poll, with the data service
\* holding `cs` and `is`
Start(cs, is) ==
    /\ now = 0
    /\ carbs = cs
    /\ insulin = is
    /\ notes = <<>>
    /\ pc = "fetch"
    /\ carb_data = <<>>
    /\ carb_ok = TRUE
    /\ first_seen = {}
    /\ idx = 1
    /\ insulin_data = NoInsulin
    /\ verdicts = <<>>
    /\ ins_fetches = 0
    /\ sa_calls = <<>>
    /\ dd_log = <<>>
    /\ po_log = <<>>
    /\ ns_log = <<>>
    /\ failures = 0

Init ==
    \E cs \in {S \in SUBSET CarbTimes : Cardinality(S) <= MaxCarbs} :
        \E is \in {S \in SUBSET InsulinTimes : Cardinality(S) <= MaxInsulin} :
            Start(cs, is)

\* main, lines 196-204: fetch the carbs, enter check_missed_boluses (line 77)
\* when there are any.  At most `budget` external calls fail in a run.
FetchCarbs(budget) ==
    /\ pc = "fetch"
    /\ \E ok \in BOOLEAN :
        LET data == fetch_data(NewestFirst(carbs), CARB_COUNT, ok)
            seen == {r.timestamp : r \in first_seen}
        IN  /\ failures + Failed(ok) <= budget
            /\ failures' = failures + Failed(ok)
            /\ carb_ok' = ok
            /\ carb_data' = data
            /\ first_seen' = first_seen \cup
                    {[timestamp |-> c, at |-> now] : c \in Range(data) \ seen}
            /\ pc' = IF data # <<>> THEN "check" ELSE "sleep"
    /\ idx' = 1
    /\ insulin_data' = NoInsulin
    /\ verdicts' = <<>>
    /\ ins_fetches' = 0
    /\ sa_calls' = <<>>
    /\ UNCHANGED <<now, carbs, insulin, notes, dd_log, po_log, ns_log>>

\* check_missed_boluses, lines 79-113: one pass of the for loop.  An `ok` of a
\* call the pass does not make is TRUE.
CheckEntry(budget) ==
    /\ pc = "check"
    /\ \E ins_ok, dd_ok, po_ok, ns_ok \in BOOLEAN :
        LET carb_time == carb_data[idx]
            reaches == ~TooRecent(now, carb_time) /\ ~TooOld(now, carb_time)
            fetches == reaches /\ NeedInsulinFetch(insulin_data)
            data == IF fetches
                    THEN [none |-> FALSE,
                          list |-> fetch_data(NewestFirst(insulin), INSULIN_COUNT, ins_ok)]
                    ELSE insulin_data
            verdict == Verdict(now, carb_time, data.list)
            failed == Failed(ins_ok) + Failed(dd_ok) + Failed(po_ok) + Failed(ns_ok)
        IN  /\ fetches \/ ins_ok
            /\ failures + failed <= budget
            /\ failures' = failures + failed
            /\ insulin_data' = data
            /\ ins_fetches' = IF fetches THEN ins_fetches + 1 ELSE ins_fetches
            /\ verdicts' = Append(verdicts, verdict)
            /\ IF verdict = "alert"
               THEN send_alert(carb_time, dd_ok, po_ok, ns_ok)
               ELSE /\ dd_ok /\ po_ok /\ ns_ok
                    /\ UNCHANGED <<sa_calls, dd_log, po_log, ns_log, notes>>
            /\ IF LoopGoesOn(verdict) /\ idx < Len(carb_data)
               THEN idx' = idx + 1 /\ pc' = "check"
               ELSE idx' = idx /\ pc' = "sleep"
    /\ UNCHANGED <<now, carbs, insulin, carb_data, carb_ok, first_seen>>

\* main, line 206, and back to the top of the while loop; the model follows
\* `cycles` sleeps
Sleep(cycles) ==
    /\ pc = "sleep"
    /\ now + LOOP_TIME <= cycles * LOOP_TIME
    /\ now' = now + LOOP_TIME
    /\ pc' = "fetch"
    /\ UNCHANGED <<carbs, insulin, notes, carb_data, carb_ok, first_seen, idx,
                   insulin_data, verdicts, ins_fetches, sa_calls, dd_log, po_log,
                   ns_log, failures>>

Next == FetchCarbs(MaxFailures) \/ CheckEntry(MaxFailures) \/ Sleep(MaxCycles)

Spec == Init /\ [][Next]_vars

\* The same script during a long outage of the services: more calls may fail,
\* over one fixed set of entries, and the model follows it for longer.
InitOutage ==
    \E cs \in SUBSET OutageCarbs : \E is \in SUBSET OutageInsulin : Start(cs, is)

NextOutage ==
    FetchCarbs(OutageFailures) \/ CheckEntry(OutageFailures) \/ Sleep(OutageCycles)

SpecOutage == InitOutage /\ [][NextOutage]_vars

\* ------------------------------------------------------------------ claims
\* carb_data, verdicts, insulin_data, ins_fetches and sa_calls are those of the
\* poll cycle running at `now`
InCycle == pc # "fetch"

Elapsed(i) == now - carb_data[i]

Evaluated == 1..Len(verdicts)

Eligible(i) == Elapsed(i) > BOLUS_BEFORE /\ Elapsed(i) <= IGNORE_AFTER

\* some fetched insulin entry lies in [carb, carb + BOLUS_BEFORE]
FetchedMatch(i) ==
    \E k \in 1..Len(insulin_data.list) :
        /\ insulin_data.list[k] >= carb_data[i]
        /\ insulin_data.list[k] <= carb_data[i] + BOLUS_BEFORE

\* the loop has gone, or is going, on to the entry after carb_data[i]
GoesOnAfter(i) ==
    i < Len(carb_data) => (Len(verdicts) > i \/ (pc = "check" /\ idx = i + 1))

\* the loop ended with carb_data[i]
StopsAt(i) == Len(verdicts) = i /\ pc = "sleep"

\* C1: in one poll cycle send_alert is called at most once; an evaluated carb
\* entry that is neither too recent nor too old and has no matching insulin
\* entry gets exactly one call of send_alert, and no entry after it is evaluated.
C1_OneAlertPerCycle ==
    /\ Len(sa_calls) <= 1
    /\ InCycle =>
        \A i \in Evaluated :
            (Eligible(i) /\ ~FetchedMatch(i)) =>
                (sa_calls = <<carb_data[i]>> /\ StopsAt(i))

\* an unmatched entry was alerted with another carb entry left in the batch
C1_Witness ==
    /\ InCycle
    /\ \E i \in Evaluated :
        /\ Eligible(i) /\ ~FetchedMatch(i)
        /\ i < Len(carb_data)
        /\ sa_calls = <<carb_data[i]>>

\* C3: a carb entry whose elapsed time is at most BOLUS_BEFORE (zero and
\* negative included) is never passed to send_alert; the loop goes on to the
\* next entry.
C3_TooRecentSkipped ==
    InCycle =>
        \A i \in Evaluated :
            Elapsed(i) <= BOLUS_BEFORE =>
                (carb_data[i] \notin Range(sa_calls) /\ GoesOnAfter(i))

\* an entry exactly BOLUS_BEFORE old was skipped and the next one evaluated
C3_Witness ==
    /\ InCycle
    /\ \E i \in Evaluated : Elapsed(i) = BOLUS_BEFORE /\ Len(verdicts) > i

\* C4: when the loop reaches a carb entry older than IGNORE_AFTER it stops:
\* send_alert is called neither for that entry nor for any entry after it.
C4_TooOldStops ==
    InCycle =>
        \A i \in Evaluated :
            Elapsed(i) > IGNORE_AFTER =>
                /\ StopsAt(i)
                /\ \A j \in i..Len(carb_data) : carb_data[j] \notin Range(sa_calls)

\* the loop stopped at a too old entry with another entry left in the batch
C4_Witness ==
    /\ InCycle
    /\ \E i \in Evaluated : Elapsed(i) > IGNORE_AFTER /\ i < Len(carb_data)

\* C5: a carb entry that is neither too recent nor too old and has a fetched
\* insulin entry 0..BOLUS_BEFORE seconds after it is not passed to send_alert;
\* the loop goes on to the next entry.
C5_MatchedNotAlerted ==
    InCycle =>
        \A i \in Evaluated :
            (Eligible(i) /\ FetchedMatch(i)) =>
                (carb_data[i] \notin Range(sa_calls) /\ GoesOnAfter(i))

\* an entry matched by an insulin entry exactly BOLUS_BEFORE after it, and the
\* next entry evaluated
C5_Witness ==
    /\ InCycle
    /\ \E i \in Evaluated :
        /\ Eligible(i)
        /\ \E k \in 1..Len(insulin_data.list) :
               insulin_data.list[k] = carb_data[i] + BOLUS_BEFORE
        /\ Len(verdicts) > i

\* C6: in one poll cycle the insulin list is fetched at most once, and it is
\* fetched exactly when some evaluated carb entry is neither too recent nor
\* too old.
C6_LazyInsulinFetch ==
    InCycle =>
        /\ ins_fetches <= 1
        /\ (ins_fetches = 1) <=> (\E i \in Evaluated : Eligible(i))

\* two entries of one batch got to the match test, on one fetch
C6_Witness ==
    /\ InCycle
    /\ ins_fetches = 1
    /\ \E i, j \in Evaluated : i # j /\ Eligible(i) /\ Eligible(j)

\* no external call has failed so far
AllOk == failures = 0

\* every call of already_alerted so far got all the notes written before it
DedupSeen == \A k \in 1..Len(dd_log) : dd_log[k].seen

\* number of notifications delivered / notes stored for a carb entry
Sent(ts) == Cardinality({k \in 1..Len(po_log) : po_log[k].timestamp = ts /\ po_log[k].ok})

Written(ts) == Cardinality({k \in 1..Len(notes) : notes[k] = ts})

\* C2: while the external calls succeed and every deduplication check gets the
\* notes written before it, at most one notification is delivered and at most
\* one note is stored for each carb-entry timestamp.
C2_OneAlertPerTimestamp ==
    (AllOk /\ DedupSeen) =>
        \A ts \in CarbTimes : Sent(ts) <= 1 /\ Written(ts) <= 1

\* a second send_alert for an alerted carb entry was suppressed
C2_Witness ==
    /\ AllOk /\ DedupSeen
    /\ \E k \in 1..Len(dd_log) :
        /\ dd_log[k].result
        /\ Sent(dd_log[k].timestamp) = 1
        /\ Written(dd_log[k].timestamp) = 1

\* C7: a deduplication query that succeeds reports "already alerted" whenever
\* the data service holds a note of this monitor with the carb entry's
\* timestamp, however many notes were written after it.
C7_DedupFindsAnyNote ==
    \A k \in 1..Len(dd_log) :
        (dd_log[k].ok /\ dd_log[k].had) => dd_log[k].result

\* the send_alert call dd_log[k] went on to push and to write
Attempted(k) ==
    /\ \E p \in 1..Len(po_log) :
        po_log[p].timestamp = dd_log[k].timestamp /\ po_log[p].at = dd_log[k].at
    /\ \E n \in 1..Len(ns_log) :
        ns_log[n].timestamp = dd_log[k].timestamp /\ ns_log[n].at = dd_log[k].at

\* the note write of the send_alert call dd_log[k] failed
WriteFailed(k) ==
    \E n \in 1..Len(ns_log) : ns_log[n].at = dd_log[k].at /\ ~ns_log[n].ok

\* dd_log[m] is the first send_alert call after dd_log[k] for the same carb entry
NextCall(k, m) ==
    /\ k < m
    /\ dd_log[m].timestamp = dd_log[k].timestamp
    /\ \A j \in (k + 1)..(m - 1) : dd_log[j].timestamp # dd_log[k].timestamp

\* one push and one write in the cycle of the send_alert call dd_log[k]
NoRetry(k) ==
    /\ Cardinality({p \in 1..Len(po_log) : po_log[p].at = dd_log[k].at}) = 1
    /\ Cardinality({n \in 1..Len(ns_log) : ns_log[n].at = dd_log[k].at}) = 1

\* C8 as stated: after a failed note write nothing is retried in that cycle,
\* and the next send_alert for the same carb entry finds no note and pushes
\* and writes again.
C8_RetryAfterFailedWrite ==
    \A k \in 1..Len(dd_log) :
        WriteFailed(k) =>
            /\ NoRetry(k)
            /\ \A m \in 1..Len(dd_log) :
                NextCall(k, m) => (~dd_log[m].result /\ Attempted(m))

\* C8 amended: the same, when the data service held no note with the carb
\* entry's timestamp at the time of the failed write.
C8_RetryAfterFailedFirstWrite ==
    \A k \in 1..Len(dd_log) :
        (WriteFailed(k) /\ ~dd_log[k].had) =>
            /\ NoRetry(k)
            /\ \A m \in 1..Len(dd_log) :
                NextCall(k, m) => (~dd_log[m].result /\ Attempted(m))

\* a write failed with no note stored, and the next cycle's deduplication
\* query succeeded, found nothing and the alert was attempted again
C8_Witness ==
    \E k, m \in 1..Len(dd_log) :
        /\ WriteFailed(k) /\ ~dd_log[k].had
        /\ NextCall(k, m)
        /\ dd_log[m].ok /\ ~dd_log[m].result /\ Attempted(m)

\* nothing was pushed or written in the cycle running at `now`
NothingSent ==
    /\ \A p \in 1..Len(po_log) : po_log[p].at # now
    /\ \A n \in 1..Len(ns_log) : ns_log[n].at # now

\* C9: a failed carb fetch yields an empty batch; a cycle with an empty batch
\* evaluates nothing, fetches no insulin, pushes and writes nothing, and goes
\* to sleep; the loop has a next step in every state (up to the last cycle the
\* model follows).
C9_EmptyBatchCycle ==
    /\ InCycle =>
        /\ ~carb_ok => carb_data = <<>>
        /\ carb_data = <<>> =>
            /\ pc = "sleep"
            /\ verdicts = <<>> /\ ins_fetches = 0 /\ sa_calls = <<>>
            /\ NothingSent
    /\ now < MaxNow => ENABLED Next

\* the carb fetch failed, with carb entries in the data service, and the cycle
\* went to sleep
C9_Witness ==
    /\ pc = "sleep" /\ ~carb_ok /\ carbs # {} /\ now < MaxNow
    /\ carb_data = <<>>

\* a notification for carb entry c was delivered at an elapsed time of at most d
DeliveredBy(c, d) ==
    \E p \in 1..Len(po_log) :
        po_log[p].timestamp = c /\ po_log[p].ok /\ po_log[p].at - c <= d

\* no entry ahead of carb_data[i] is neither too recent nor too old and unmatched
Unblocked(i) == \A j \in 1..(i - 1) : ~(Eligible(j) /\ ~FetchedMatch(j))

\* carb entry c was first fetched at an elapsed time of at most d
FirstSeenBy(c, d) == \E r \in first_seen : r.timestamp = c /\ r.at - c <= d

\* C10 as stated: with every call succeeding, at the end of a cycle a fetched
\* carb entry that has reached the age BOLUS_BEFORE + LOOP_TIME, is unmatched
\* and has no eligible unmatched entry ahead of it has had its notification
\* delivered at an age of at most BOLUS_BEFORE + LOOP_TIME.
C10_AlertWithinTwoLoops ==
    (pc = "sleep" /\ AllOk) =>
        \A i \in 1..Len(carb_data) :
            (/\ Elapsed(i) >= BOLUS_BEFORE + LOOP_TIME
             /\ Eligible(i) /\ ~FetchedMatch(i) /\ Unblocked(i))
                => DeliveredBy(carb_data[i], BOLUS_BEFORE + LOOP_TIME)

\* C10 amended: the same, for a carb entry that the poll cycles first fetched
\* at an age of at most BOLUS_BEFORE + LOOP_TIME.
C10_AlertWithinTwoLoopsOfFetch ==
    (pc = "sleep" /\ AllOk) =>
        \A i \in 1..Len(carb_data) :
            (/\ FirstSeenBy(carb_data[i], BOLUS_BEFORE + LOOP_TIME)
             /\ Elapsed(i) >= BOLUS_BEFORE + LOOP_TIME
             /\ Eligible(i) /\ ~FetchedMatch(i) /\ Unblocked(i))
                => DeliveredBy(carb_data[i], BOLUS_BEFORE + LOOP_TIME)

\* an entry first fetched while too recent was notified at the age of exactly
\* BOLUS_BEFORE + LOOP_TIME
C10_Witness ==
    /\ pc = "sleep" /\ AllOk
    /\ \E i \in 1..Len(carb_data) :
        /\ FirstSeenBy(carb_data[i], BOLUS_BEFORE)
        /\ Elapsed(i) = BOLUS_BEFORE + LOOP_TIME
        /\ ~FetchedMatch(i) /\ Unblocked(i)
        /\ DeliveredBy(carb_data[i], BOLUS_BEFORE + LOOP_TIME)
        /\ ~DeliveredBy(carb_data[i], BOLUS_BEFORE + LOOP_TIME - 1)

\* C11: an evaluated carb entry that is neither too recent nor too old is
\* passed to send_alert whenever every fetched insulin entry is strictly
\* earlier than it or more than BOLUS_BEFORE after it (an empty list, as after
\* a failed insulin fetch, included).
C11_UnmatchedAlerted ==
    InCycle =>
        \A i \in Evaluated :
            (/\ Eligible(i)
             /\ \A k \in 1..Len(insulin_data.list) :
                    \/ insulin_data.list[k] < carb_data[i]
                    \/ insulin_data.list[k] > carb_data[i] + BOLUS_BEFORE)
                => (verdicts[i] = "alert" /\ carb_data[i] \in Range(sa_calls))

\* an entry was alerted although the fetched list holds an insulin entry, one
\* strictly earlier than the carbs
C11_Witness ==
    /\ InCycle
    /\ \E i \in Evaluated :
        /\ Eligible(i)
        /\ insulin_data.list # <<>>
        /\ \A k \in 1..Len(insulin_data.list) : insulin_data.list[k] < carb_data[i]
        /\ carb_data[i] \in Range(sa_calls)

\* C12: an evaluated carb entry exactly IGNORE_AFTER old is not too old: the
\* insulin list is fetched for it and, when no fetched insulin entry matches,
\* it is passed to send_alert.
C12_LookbackInclusive ==
    InCycle =>
        \A i \in Evaluated :
            Elapsed(i) = IGNORE_AFTER =>
                /\ verdicts[i] \in {"matched", "alert"}
                /\ ins_fetches = 1
                /\ ~FetchedMatch(i) => carb_data[i] \in Range(sa_calls)

\* an unmatched entry exactly IGNORE_AFTER old was alerted
C12_Witness ==
    /\ InCycle
    /\ \E i \in Evaluated :
        Elapsed(i) = IGNORE_AFTER /\ ~FetchedMatch(i) /\ sa_calls = <<carb_data[i]>>

\* the deduplication check of the cycle running at `now` suppressed the alert
Suppressed ==
    \E k \in 1..Len(dd_log) : dd_log[k].at = now /\ dd_log[k].result

\* C13: the loop stops at the first entry that is neither too recent nor too
\* old and unmatched also when its alert is suppressed: then nothing is pushed
\* or written in that cycle; and send_alert is never called for an entry that
\* has another such entry ahead of it in the batch.
C13_HaltsWhenSuppressed ==
    InCycle =>
        /\ \A i \in Evaluated :
            (Eligible(i) /\ ~FetchedMatch(i) /\ Suppressed) =>
                (StopsAt(i) /\ NothingSent)
        /\ \A i \in Evaluated : \A j \in 1..Len(carb_data) :
            (i < j /\ Eligible(i) /\ ~FetchedMatch(i)) =>
                carb_data[j] \notin Range(sa_calls)

\* the newest of two unmatched entries was suppressed, and the older one,
\* eligible and unmatched too, has never been pushed or noted
C13_Witness ==
    /\ InCycle /\ Suppressed
    /\ \E i \in Evaluated : \E j \in 1..Len(carb_data) :
        /\ i < j
        /\ Eligible(i) /\ ~FetchedMatch(i)
        /\ Eligible(j) /\ ~FetchedMatch(j)
        /\ \A p \in 1..Len(po_log) : po_log[p].timestamp # carb_data[j]
        /\ carb_data[j] \notin Range(notes)

\* the push of the send_alert call dd_log[k] failed and its note was stored
PushFailedNoteStored(k) ==
    /\ \E p \in 1..Len(po_log) : po_log[p].at = dd_log[k].at /\ ~po_log[p].ok
    /\ \E n \in 1..Len(ns_log) : ns_log[n].at = dd_log[k].at /\ ns_log[n].ok

\* every push, delivered or not, is followed by a note write in the same cycle
NoteAfterEveryPush ==
    \A p \in 1..Len(po_log) :
        \E n \in 1..Len(ns_log) :
            ns_log[n].at = po_log[p].at /\ ns_log[n].timestamp = po_log[p].timestamp

\* C14 as stated: the note is written whatever the push outcome, and after a
\* failed push with a stored note every later send_alert for that carb entry
\* is suppressed: no notification is delivered for it.
C14_FailedPushNeverRetried ==
    /\ NoteAfterEveryPush
    /\ \A k, m \in 1..Len(dd_log) :
        (/\ PushFailedNoteStored(k)
         /\ k < m /\ dd_log[m].timestamp = dd_log[k].timestamp)
            => (dd_log[m].result /\ ~Attempted(m))

\* C14 amended: the same, for every later send_alert whose deduplication query
\* returns all the notes written before it.
C14_FailedPushNotRetriedWhenSeen ==
    /\ NoteAfterEveryPush
    /\ \A k, m \in 1..Len(dd_log) :
        (/\ PushFailedNoteStored(k)
         /\ k < m /\ dd_log[m].timestamp = dd_log[k].timestamp
         /\ dd_log[m].seen)
            => (dd_log[m].result /\ ~Attempted(m))

\* a push failed, its note was stored, and a later send_alert for the same
\* carb entry was suppressed with no notification ever delivered for it
C14_Witness ==
    \E k, m \in 1..Len(dd_log) :
        /\ PushFailedNoteStored(k)
        /\ k < m /\ dd_log[m].timestamp = dd_log[k].timestamp
        /\ dd_log[m].seen /\ dd_log[m].result /\ ~Attempted(m)
        /\ Sent(dd_log[k].timestamp) = 0

\* C15: when the deduplication query fails, already_alerted reports "not
\* alerted" and send_alert pushes and writes, also when the data service holds
\* a note with the carb entry's timestamp.
C15_FailedLookupResends ==
    \A k \in 1..Len(dd_log) :
        ~dd_log[k].ok => (~dd_log[k].result /\ Attempted(k))

\* a failed lookup for an entry that has a note: a second notification was
\* delivered and a second note stored
C15_Witness ==
    \E k \in 1..Len(dd_log) :
        /\ ~dd_log[k].ok /\ dd_log[k].had /\ Attempted(k)
        /\ Sent(dd_log[k].timestamp) = 2
        /\ Written(dd_log[k].timestamp) = 2

\* C16: a step that changes the notes puts one note in front of the others,
\* which stay as they are; the new note carries the timestamp of the carb entry
\* under evaluation, which is in the data service, older than BOLUS_BEFORE, not
\* older than IGNORE_AFTER and unmatched by the insulin list fetched in this
\* cycle.
C16_NotesOnlyForMissedBoluses ==
    [][notes' # notes =>
        /\ pc = "check"
        /\ notes' = <<carb_data[idx]>> \o notes
        /\ carb_data[idx] \in carbs
        /\ now - carb_data[idx] > BOLUS_BEFORE
        /\ now - carb_data[idx] <= IGNORE_AFTER
        /\ ~insulin_data'.none
        /\ \A k \in 1..Len(insulin_data'.list) :
            \/ insulin_data'.list[k] < carb_data[idx]
            \/ insulin_data'.list[k] > carb_data[idx] + BOLUS_BEFORE]_vars

\* the data service holds notes of two carb entries, written in two cycles
C16_Witness ==
    /\ Len(notes) >= 2
    /\ notes[1] # notes[2]
    /\ \A k \in 1..Len(notes) : notes[k] \in carbs

====
